---------------------------- MODULE Spec2Model ----------------------------
(***************************************************************************)
(* lingvo/core/datasource.py: the four DataSource variants and their       *)
(* BuildDataSource operations.                                             *)
(*                                                                         *)
(* A Python value of a configuration field is a tagged record:             *)
(*   file patterns:  [t |-> "str" | "list" | "int", s |-> characters,       *)
(*                    l |-> list elements]                                  *)
(*   weights:        [t |-> "list" | "num" | "None", w |-> numbers]         *)
(* A string is the sequence of its characters, so that joining, the comma  *)
(* test and iteration over a string are computed as Python computes them.  *)
(***************************************************************************)
EXTENDS Integers, Sequences, FiniteSets, TLC

\* ------------------------------------------------------------------ bounds
MaxLen == 3
MaxMutations == 1

\* ------------------------------------------------------- Python values
Str(chars) == [t |-> "str", s |-> chars, l |-> <<>>]
List(xs) == [t |-> "list", s |-> <<>>, l |-> xs]
IntVal == [t |-> "int", s |-> <<>>, l |-> <<>>]
WList(ns) == [t |-> "list", w |-> ns]
WNum == [t |-> "num", w |-> <<>>]
NoWeights == [t |-> "None", w |-> <<>>]

SeqsUpTo(S, n) == UNION {[1..k -> S] : k \in 0..n}

\* isinstance(x, six.string_types)
IsString(x) == x.t = "str"
\* isinstance(x, list)
IsList(x) == x.t = "list"
\* len(x): defined for lists and strings, TypeError otherwise
HasLen(x) == x.t \in {"str", "list"}
PyLen(x) == IF x.t = "list" THEN Len(x.l) ELSE Len(x.s)
\* iteration "for e in x": the elements of a list, the characters of a string
Elems(x) == IF x.t = "list" THEN x.l ELSE [i \in 1..Len(x.s) |-> Str(<<x.s[i]>>)]
\* ',' in file_pattern
HasComma(x) == \E i \in 1..Len(x.s) : x.s[i] = ","
\* all(isinstance(x, six.string_types) for x in file_patterns)
AllStrings(x) == \A i \in 1..PyLen(x) : IsString(Elems(x)[i])

RECURSIVE JoinFrom(_, _)
JoinFrom(xs, i) ==
  IF i > Len(xs) THEN <<>>
  ELSE IF i = Len(xs) THEN xs[i].s
  ELSE xs[i].s \o <<",">> \o JoinFrom(xs, i + 1)
RECURSIVE Reverse(_)
Reverse(xs) == IF xs = <<>> THEN <<>> ELSE Reverse(Tail(xs)) \o <<Head(xs)>>
\* mutant: the patterns are joined in the wrong order
Join_Reversed(xs) == Str(JoinFrom(Reverse(xs), 1))

\* ','.join(file_patterns)
Join(xs) == Str(JoinFrom(xs, 1))

\* ------------------------------------------------- configuration domains
PatternElems == {Str(<<"a">>), Str(<<"b">>), Str(<<"a", ",">>), IntVal}
PatternsValues ==
  {List(xs) : xs \in SeqsUpTo(PatternElems, MaxLen)}
    \cup {Str(<<"a", "b">>), Str(<<"a", ",", "b">>), IntVal}
WeightElems == {0, 1}
WeightsValues == {WList(ns) : ns \in SeqsUpTo(WeightElems, MaxLen)} \cup {WNum}
FiltersValues == SeqsUpTo({"x"}, MaxLen)
FilePatternValues == {Str(<<>>), Str(<<"a">>), Str(<<"a", ",", "b">>), IntVal}
BatchLeaves == {<<1>>, <<2, 2>>}

Variants == {"Simple", "Chaining", "WithinBatchMixing", "CrossBatchMixing"}

\* Params(): the declared fields and their defaults
Params ==
  [file_pattern |-> Str(<<>>), file_patterns |-> List(<<>>),
   weights |-> WList(<<>>), bprop_variable_filters |-> <<>>]

Configs(v) ==
  IF v = "Simple"
    THEN {[Params EXCEPT !.file_pattern = fp] : fp \in FilePatternValues}
  ELSE IF v = "Chaining"
    THEN {[Params EXCEPT !.file_patterns = fps] : fps \in PatternsValues}
  ELSE IF v = "WithinBatchMixing"
    THEN {[Params EXCEPT !.file_patterns = fps, !.weights = ws] :
            fps \in PatternsValues, ws \in WeightsValues}
  ELSE {[Params EXCEPT !.file_patterns = fps, !.weights = ws,
                       !.bprop_variable_filters = fs] :
            fps \in PatternsValues, ws \in WeightsValues, fs \in FiltersValues}

\* ----------------------------------------------------------------- state
VARIABLES
  variant,        \* the class of the constructed instance
  heap,           \* object id -> configuration object
  self_params,    \* self.params: the id of the instance's configuration
  ctorParams,     \* the configuration's value when __init__ ran
  mutations,      \* mutations of the caller's object so far
  outcome,        \* of the last BuildDataSource call
  ret,            \* the NestedMap the last call returned
  fetchLog,       \* the fetch calls of the last BuildDataSource call
  drawn           \* the index the Weighted Selector drew in the last call

vars == <<variant, heap, self_params, ctorParams, mutations, outcome, ret,
          fetchLog, drawn>>

\* object identities: the caller's Params object and the one Copy() makes
CallerObj == "params"
CopyObj == "params.Copy()"

\* ------------------------------------------------------ fetch collaborator
\* data_source_from_file_pattern_fn(file_pattern, input_source_weights=None).
\* fn is the collaborator: the calls it has received in this BuildDataSource
\* call and the leaf shapes of the batches it hands out.  The batch it
\* returns is identified by the arguments it was asked with.
Fetch(fn, file_pattern, input_source_weights) ==
  LET batch == [file_pattern |-> file_pattern,
                input_source_weights |-> input_source_weights,
                leaves |-> fn.leaves]
  IN [value |-> batch,
      fn |-> [fn EXCEPT !.log = Append(@, [file_pattern |-> file_pattern,
                              input_source_weights |-> input_source_weights,
                              batch |-> batch])]]

NewFn(leaves) == [log |-> <<>>, leaves |-> leaves]

\* raise ValueError / TypeError: no NestedMap is returned
Raise(kind, fn) == [outcome |-> kind, ret |-> <<>>, log |-> fn.log, drawn |-> 0]
Return(r, fn, i) == [outcome |-> "ok", ret |-> r, log |-> fn.log, drawn |-> i]

\* [''] * n
EmptyFilters(n) == [i \in 1..n |-> ""]

\* ------------------------------------------------------- SimpleDataSource
SimpleBuildDataSource(p, fn) ==
  IF ~IsString(p.file_pattern) THEN Raise("ValueError", fn)
  ELSE LET f == Fetch(fn, p.file_pattern, NoWeights)
       IN Return([data |-> f.value], f.fn, 0)

\* ----------------------------------------------------- ChainingDataSource
\* mutant: only the first pattern is tested for a comma
AnyComma_FirstOnly(xs) == Len(xs) > 0 /\ HasComma(xs[1])

\* for file_pattern in file_patterns: if ',' in file_pattern: raise
AnyComma(xs) == \E i \in 1..Len(xs) : HasComma(xs[i])

ChainingBuildDataSource(p, fn) ==
  IF ~IsList(p.file_patterns) THEN Raise("ValueError", fn)
  ELSE IF ~AllStrings(p.file_patterns) THEN Raise("ValueError", fn)
  ELSE IF AnyComma(p.file_patterns.l) THEN Raise("ValueError", fn)
  ELSE LET f == Fetch(fn, Join(p.file_patterns.l), NoWeights)
       IN Return([data |-> f.value,
                  bprop_variable_filters |-> EmptyFilters(Len(p.file_patterns.l))],
                 f.fn, 0)

\* -------------------------------------------- WithinBatchMixingDataSource
\* mutant: the length check comes after the fetch
WithinBatchMixingBuildDataSource_FetchFirst(p, fn) ==
  IF ~IsList(p.file_patterns) THEN Raise("ValueError", fn)
  ELSE IF ~IsList(p.weights) THEN Raise("ValueError", fn)
  ELSE IF ~AllStrings(p.file_patterns) THEN Raise("ValueError", fn)
  ELSE IF AnyComma(p.file_patterns.l) THEN Raise("ValueError", fn)
  ELSE LET f == Fetch(fn, Join(p.file_patterns.l), p.weights)
       IN IF Len(p.file_patterns.l) # Len(p.weights.w)
            THEN Raise("ValueError", f.fn)
            ELSE Return([data |-> f.value,
                         bprop_variable_filters |->
                           EmptyFilters(Len(p.file_patterns.l))],
                        f.fn, 0)

WithinBatchMixingBuildDataSource(p, fn) ==
  IF ~IsList(p.file_patterns) THEN Raise("ValueError", fn)
  ELSE IF ~IsList(p.weights) THEN Raise("ValueError", fn)
  ELSE IF Len(p.file_patterns.l) # Len(p.weights.w) THEN Raise("ValueError", fn)
  ELSE IF ~AllStrings(p.file_patterns) THEN Raise("ValueError", fn)
  ELSE IF AnyComma(p.file_patterns.l) THEN Raise("ValueError", fn)
  ELSE LET f == Fetch(fn, Join(p.file_patterns.l), p.weights)
       IN Return([data |-> f.value,
                  bprop_variable_filters |-> EmptyFilters(Len(p.file_patterns.l))],
                 f.fn, 0)

\* ------------------------------------------------------ Weighted Selector
RECURSIVE SumTo(_, _)
\* tf.cumsum: the sum of the first i weights
SumTo(ws, i) == IF i = 0 THEN 0 ELSE ws[i] + SumTo(ws, i - 1)

\* tf.one_hot(i, n)
OneHot(i, n) == [k \in 1..n |-> IF k = i THEN 1 ELSE 0]

\* the random source: every seed is possible
MaxTotal == MaxLen * (CHOOSE m \in WeightElems : \A x \in WeightElems : x <= m)
Seeds == 0..MaxTotal
\* r = tf.random.uniform(maxval=total): any value of [0, total)
RandomUniform(total, seed) == seed % total

\* index i is selected by draw r: lower[i] <= r < upper[i]
Selects(ws, i, r) == SumTo(ws, i - 1) <= r /\ r < SumTo(ws, i)

\* a lazy producer "lambda: data_source_from_file_pattern_fn(file_pattern)"
Invoke(producer, fn) == Fetch(fn, producer.file_pattern, NoWeights)

\* py_utils.MixByWeight(inputs, weights): invokes the selected producer only
\* With a total weight of zero the selection is undefined: the selector may
\* fail (0) or return any index, as the seed decides.
MixByWeight(inputs, weights, seed, fn) ==
  LET n == Len(inputs)
      total == SumTo(weights.w, Len(weights.w))
      i == IF total > 0
             THEN CHOOSE k \in 1..n :
                    Selects(weights.w, k, RandomUniform(total, seed))
             ELSE seed % (n + 1)
  IN IF i = 0
       THEN [failed |-> TRUE, data |-> <<>>, selected_bprop |-> <<>>,
             index |-> 0, fn |-> fn]
       ELSE LET f == Invoke(inputs[i], fn)
            IN [failed |-> FALSE, data |-> f.value,
                selected_bprop |-> OneHot(i, n), index |-> i, fn |-> f.fn]

\* --------------------------------------------- CrossBatchMixingDataSource
\* mutant: fetch is called while the producer is built
MakeDataSourceFromFilePatternFunc_Eager(fn, file_pattern) ==
  [producer |-> [file_pattern |-> file_pattern],
   fn |-> Fetch(fn, file_pattern, NoWeights).fn]

\* _MakeDataSourceFromFilePatternFunc: the producer is built, fetch is not
\* called
MakeDataSourceFromFilePatternFunc(fn, file_pattern) ==
  [producer |-> [file_pattern |-> file_pattern], fn |-> fn]

RECURSIVE MakeInputs(_, _, _)
\* inputs = [_MakeDataSourceFromFilePatternFunc(fn, fp) for fp in file_patterns]
MakeInputs(fn, xs, i) ==
  IF i > Len(xs) THEN [inputs |-> <<>>, fn |-> fn]
  ELSE LET m == MakeDataSourceFromFilePatternFunc(fn, xs[i])
           rest == MakeInputs(m.fn, xs, i + 1)
       IN [inputs |-> <<m.producer>> \o rest.inputs, fn |-> rest.fn]

\* py_utils.GetShape(tf.nest.flatten(data_source)[0])[0]
BatchSize(data) == data.leaves[1]
\* tf.expand_dims(v, 0)
ExpandDims(v) == <<v>>
\* tf.tile(m, [a, b]) of a 2-D array
Tile(m, a, b) ==
  [i \in 1..(Len(m) * a) |->
     LET row == m[((i - 1) % Len(m)) + 1]
     IN [j \in 1..(Len(row) * b) |-> row[((j - 1) % Len(row)) + 1]]]

\* mutant: the multiples of tf.tile are swapped
SourceSelected_SwappedMultiples(selected_bprop, batch_size) ==
  Tile(ExpandDims(selected_bprop), 1, batch_size)

\* tf.tile(tf.expand_dims(selected_bprop, 0), [batch_size, 1])
SourceSelected(selected_bprop, batch_size) ==
  Tile(ExpandDims(selected_bprop), batch_size, 1)

\* if not p.bprop_variable_filters: [''] * len(inputs) else the configured list
ResolveFilters(p, inputs) ==
  IF p.bprop_variable_filters = <<>> THEN EmptyFilters(Len(inputs))
  ELSE p.bprop_variable_filters

\* mutant: the selector is given uniform weights
SelectorWeights_Uniform(p) == WList([i \in 1..Len(p.weights.w) |-> 1])

\* weights = p.weights
SelectorWeights(p) == p.weights

CrossBatchMixingBuildDataSource(p, fn, seed) ==
  IF ~HasLen(p.weights) \/ ~HasLen(p.file_patterns) THEN Raise("TypeError", fn)
  ELSE IF Len(p.weights.w) # PyLen(p.file_patterns) THEN Raise("ValueError", fn)
  ELSE IF ~AllStrings(p.file_patterns) THEN Raise("ValueError", fn)
  ELSE LET made == MakeInputs(fn, Elems(p.file_patterns), 1)
           bprop_variable_filters == ResolveFilters(p, made.inputs)
           mix == MixByWeight(made.inputs, SelectorWeights(p), seed, made.fn)
       IN IF mix.failed THEN Raise("ValueError", mix.fn)
          ELSE Return([data |-> mix.data,
                       bprop_variable_filters |-> bprop_variable_filters,
                       selected_bprop |-> mix.selected_bprop,
                       source_selected |->
                         SourceSelected(mix.selected_bprop, BatchSize(mix.data))],
                      mix.fn, mix.index)

\* ------------------------------------------------------------ DataSource
\* hyperparams.Params.Copy(): a new object with the same field values
Copy(h, id) == [heap |-> (CopyObj :> h[id]) @@ h, id |-> CopyObj]

\* mutant: self.params = params
DataSourceInit_NoCopy(h, params) == [heap |-> h, self_params |-> params]

\* DataSource.__init__: self.params = params.Copy()
DataSourceInit(h, params) ==
  LET c == Copy(h, params) IN [heap |-> c.heap, self_params |-> c.id]

\* p = self.params
P == heap[self_params]

Init ==
  /\ variant \in Variants
  /\ \E cfg \in Configs(variant) :
       LET d == DataSourceInit((CallerObj :> cfg), CallerObj)
       IN /\ heap = d.heap
          /\ self_params = d.self_params
          /\ ctorParams = cfg
  /\ mutations = 0
  /\ outcome = "none"
  /\ ret = <<>>
  /\ fetchLog = <<>>
  /\ drawn = 0

Finish(c) ==
  /\ outcome' = c.outcome
  /\ ret' = c.ret
  /\ fetchLog' = c.log
  /\ drawn' = c.drawn
  /\ UNCHANGED <<variant, heap, self_params, ctorParams, mutations>>

SimpleDataSource_BuildDataSource ==
  /\ variant = "Simple"
  /\ \E leaves \in BatchLeaves : Finish(SimpleBuildDataSource(P, NewFn(leaves)))

ChainingDataSource_BuildDataSource ==
  /\ variant = "Chaining"
  /\ \E leaves \in BatchLeaves : Finish(ChainingBuildDataSource(P, NewFn(leaves)))

WithinBatchMixingDataSource_BuildDataSource ==
  /\ variant = "WithinBatchMixing"
  /\ \E leaves \in BatchLeaves :
       Finish(WithinBatchMixingBuildDataSource(P, NewFn(leaves)))

CrossBatchMixingDataSource_BuildDataSource ==
  /\ variant = "CrossBatchMixing"
  /\ \E leaves \in BatchLeaves, seed \in Seeds :
       Finish(CrossBatchMixingBuildDataSource(P, NewFn(leaves), seed))

\* ---------------------- the caller keeps using its own Params object
Mutate(obj) ==
  /\ mutations < MaxMutations
  /\ mutations' = mutations + 1
  /\ heap' = [heap EXCEPT ![CallerObj] = obj]
  /\ UNCHANGED <<variant, self_params, ctorParams, outcome, ret, fetchLog, drawn>>

\* params.file_pattern = fp
CallerSetFilePattern ==
  /\ variant = "Simple"
  /\ \E fp \in FilePatternValues \ {heap[CallerObj].file_pattern} :
       Mutate([heap[CallerObj] EXCEPT !.file_pattern = fp])

\* params.file_patterns.append('b')
CallerAppendFilePattern ==
  /\ variant # "Simple"
  /\ IsList(heap[CallerObj].file_patterns)
  /\ Len(heap[CallerObj].file_patterns.l) < MaxLen
  /\ Mutate([heap[CallerObj] EXCEPT !.file_patterns.l = Append(@, Str(<<"b">>))])

\* params.weights.append(1)
CallerAppendWeight ==
  /\ variant \in {"WithinBatchMixing", "CrossBatchMixing"}
  /\ IsList(heap[CallerObj].weights)
  /\ Len(heap[CallerObj].weights.w) < MaxLen
  /\ Mutate([heap[CallerObj] EXCEPT !.weights.w = Append(@, 1)])

\* params.bprop_variable_filters = []
CallerClearFilters ==
  /\ variant = "CrossBatchMixing"
  /\ heap[CallerObj].bprop_variable_filters # <<>>
  /\ Mutate([heap[CallerObj] EXCEPT !.bprop_variable_filters = <<>>])

Next ==
  \/ SimpleDataSource_BuildDataSource
  \/ ChainingDataSource_BuildDataSource
  \/ WithinBatchMixingDataSource_BuildDataSource
  \/ CrossBatchMixingDataSource_BuildDataSource
  \/ CallerSetFilePattern
  \/ CallerAppendFilePattern
  \/ CallerAppendWeight
  \/ CallerClearFilters

Spec == Init /\ [][Next]_vars

\* ================================================================ claims
IsCB == variant = "CrossBatchMixing"
Called == outcome # "none"
Returned == outcome = "ok"
NoResult == DOMAIN ret = {}
\* the patterns, weights and filters the instance is configured with
FilePatterns == P.file_patterns
Weights == P.weights
N == PyLen(FilePatterns)
\* the CrossBatchMixing checks of lines 248-254 pass
CrossBatchValidated ==
  /\ IsCB
  /\ HasLen(Weights) /\ HasLen(FilePatterns)
  /\ PyLen(FilePatterns) = Len(Weights.w)
  /\ \A i \in 1..N : Elems(FilePatterns)[i].t = "str"

\* some weight is positive: the selector's choice is defined
SelectionDefined == HasLen(Weights) /\ \E i \in 1..Len(Weights.w) : Weights.w[i] > 0

RECURSIVE SplitFrom(_, _, _)
\* the comma-separated pieces of a string
SplitFrom(cs, i, cur) ==
  IF i > Len(cs) THEN <<cur>>
  ELSE IF cs[i] = "," THEN <<cur>> \o SplitFrom(cs, i + 1, <<>>)
  ELSE SplitFrom(cs, i + 1, Append(cur, cs[i]))
\* str is the patterns xs joined by commas in their order
IsJoinOf(str, xs) ==
  /\ str.t = "str"
  /\ IF Len(xs) = 0 THEN str.s = <<>>
     ELSE SplitFrom(str.s, 1, <<>>) = [i \in 1..Len(xs) |-> xs[i].s]

\* C1: every CrossBatchMixing call that returns a result has invoked fetch
\* exactly once, with the pattern at the index the selector drew and with no
\* weights argument; no other producer ran and building the producers fetched
\* nothing.
C1_FetchOnlySelected ==
  /\ (CrossBatchValidated /\ SelectionDefined /\ Called) => Returned
  /\ (IsCB /\ Returned) =>
       /\ drawn \in 1..N
       /\ Len(fetchLog) = 1
       /\ fetchLog[1].file_pattern = Elems(FilePatterns)[drawn]
       /\ fetchLog[1].input_source_weights = NoWeights

C1_Witness ==
  /\ IsCB /\ Returned /\ N = 3 /\ drawn = 2 /\ Len(fetchLog) = 1
  /\ Elems(FilePatterns)[1] # Elems(FilePatterns)[2]

\* C2: in every variant, a BuildDataSource call that fails with ValueError has
\* invoked fetch zero times.
C2_ValueErrorBeforeFetch ==
  outcome = "ValueError" => fetchLog = <<>>

C2_Witness ==
  /\ variant = "WithinBatchMixing" /\ outcome = "ValueError"
  /\ IsList(FilePatterns) /\ Len(FilePatterns.l) = 3
  /\ IsList(Weights) /\ Len(Weights.w) = 2
  /\ AllStrings(FilePatterns) /\ ~AnyComma(FilePatterns.l)

\* C3: CrossBatchMixing fails with ValueError when bprop_variable_filters is
\* non-empty and its length differs from len(file_patterns); every result has
\* one filter per configured pattern.  Stated on the configurations whose
\* file_patterns is a list and that have a positive weight, where the
\* selector's choice is defined.
C3_FilterLengthChecked ==
  /\ (CrossBatchValidated /\ IsList(FilePatterns) /\ SelectionDefined /\ Called
        /\ P.bprop_variable_filters # <<>>
        /\ Len(P.bprop_variable_filters) # N)
       => outcome = "ValueError"
  /\ (IsCB /\ IsList(FilePatterns) /\ SelectionDefined /\ Returned) =>
       /\ Len(ret.bprop_variable_filters) = N
       /\ Len(ret.bprop_variable_filters) = Len(ret.selected_bprop)

\* C4: when every configured weight of a CrossBatchMixing source is zero,
\* BuildDataSource fails with ValueError, invokes no producer and returns no
\* result.
C4_AllZeroWeightsRejected ==
  (CrossBatchValidated /\ Called /\ N > 0 /\ \A i \in 1..N : Weights.w[i] = 0)
    => (outcome = "ValueError" /\ fetchLog = <<>> /\ NoResult)

\* C5: in CrossBatchMixing, when some source has positive weight, every call
\* returns, selects a source of positive weight and fetches that pattern only;
\* with weights [1, 0] selected_bprop is [1, 0] and the first pattern is
\* fetched, with weights [0, 1] it is [0, 1] and the second.
C5_ZeroWeightNeverSelected ==
  (CrossBatchValidated /\ Called /\ \E i \in 1..N : Weights.w[i] > 0) =>
    /\ Returned
    /\ Len(fetchLog) = 1
    /\ \E k \in 1..N :
         /\ Weights.w[k] > 0
         /\ ret.selected_bprop[k] = 1
         /\ fetchLog[1].file_pattern = Elems(FilePatterns)[k]
    /\ \A j \in 1..N : Weights.w[j] = 0 => ret.selected_bprop[j] = 0
    /\ Weights.w = <<1, 0>> =>
         /\ ret.selected_bprop = <<1, 0>>
         /\ fetchLog[1].file_pattern = Elems(FilePatterns)[1]
    /\ Weights.w = <<0, 1>> =>
         /\ ret.selected_bprop = <<0, 1>>
         /\ fetchLog[1].file_pattern = Elems(FilePatterns)[2]

C5_Witness ==
  /\ IsCB /\ Returned /\ Weights.w = <<0, 1>>
  /\ FilePatterns = List(<<Str(<<"a">>), Str(<<"b">>)>>)
  /\ ret.selected_bprop = <<0, 1>>

\* C6: every CrossBatchMixing result has a one-hot selected_bprop of length N
\* whose 1 is at the index of the fetched pattern, data is the batch that
\* fetch returned, and source_selected has batch_size rows, each equal to
\* selected_bprop.
C6_ResultShape ==
  (IsCB /\ Returned) =>
    /\ Len(ret.selected_bprop) = N
    /\ Len(fetchLog) = 1
    /\ \E k \in 1..N :
         /\ ret.selected_bprop = [j \in 1..N |-> IF j = k THEN 1 ELSE 0]
         /\ fetchLog[1].file_pattern = Elems(FilePatterns)[k]
    /\ ret.data = fetchLog[1].batch
    /\ Len(ret.source_selected) = ret.data.leaves[1]
    /\ \A i \in 1..Len(ret.source_selected) :
         ret.source_selected[i] = ret.selected_bprop

C6_Witness ==
  /\ IsCB /\ Returned /\ N = 3
  /\ ret.data.leaves[1] = 2
  /\ ret.source_selected = <<<<0, 0, 1>>, <<0, 0, 1>>>>

\* C7: the configuration of the instance always equals its value at
\* construction, whatever the caller does to its own object and whatever
\* BuildDataSource calls were made.
C7_ConfigFixed ==
  /\ self_params \in DOMAIN heap
  /\ heap[self_params] = ctorParams

C7_Witness ==
  /\ mutations > 0 /\ Called
  /\ heap[CallerObj] # ctorParams
  /\ heap[self_params] = ctorParams

\* C8: with a valid configuration Simple, Chaining and WithinBatchMixing call
\* fetch exactly once and return its batch under data: Simple with the exact
\* file_pattern and no other field; Chaining with the patterns joined by
\* commas in order; WithinBatchMixing with the same join and the configured
\* weights; the last two with N empty filters; none with source_selected or
\* selected_bprop.
ValidPatternList ==
  /\ IsList(FilePatterns)
  /\ \A i \in 1..N : FilePatterns.l[i].t = "str" /\ ~HasComma(FilePatterns.l[i])

C8_PassThrough ==
  /\ (variant = "Simple" /\ Called /\ P.file_pattern.t = "str") =>
       /\ Returned
       /\ Len(fetchLog) = 1
       /\ fetchLog[1].file_pattern = P.file_pattern
       /\ fetchLog[1].input_source_weights = NoWeights
       /\ DOMAIN ret = {"data"}
       /\ ret.data = fetchLog[1].batch
  /\ (variant = "Chaining" /\ Called /\ ValidPatternList) =>
       /\ Returned
       /\ Len(fetchLog) = 1
       /\ IsJoinOf(fetchLog[1].file_pattern, FilePatterns.l)
       /\ fetchLog[1].input_source_weights = NoWeights
       /\ DOMAIN ret = {"data", "bprop_variable_filters"}
       /\ ret.data = fetchLog[1].batch
       /\ ret.bprop_variable_filters = [i \in 1..N |-> ""]
  /\ (variant = "WithinBatchMixing" /\ Called /\ ValidPatternList
        /\ IsList(Weights) /\ Len(Weights.w) = N) =>
       /\ Returned
       /\ Len(fetchLog) = 1
       /\ IsJoinOf(fetchLog[1].file_pattern, FilePatterns.l)
       /\ fetchLog[1].input_source_weights = Weights
       /\ DOMAIN ret = {"data", "bprop_variable_filters"}
       /\ ret.data = fetchLog[1].batch
       /\ ret.bprop_variable_filters = [i \in 1..N |-> ""]

C8_Witness ==
  /\ variant = "WithinBatchMixing" /\ Returned
  /\ FilePatterns = List(<<Str(<<"b">>), Str(<<"a">>), Str(<<"b">>)>>)
  /\ Weights = WList(<<1, 0, 1>>)
  /\ fetchLog[1].file_pattern = Str(<<"b", ",", "a", ",", "b">>)

\* C9: in Chaining and WithinBatchMixing, a comma in any element of
\* file_patterns, at any position, makes BuildDataSource fail with ValueError
\* and return no result.
C9_CommaRejected ==
  (variant \in {"Chaining", "WithinBatchMixing"} /\ Called
     /\ IsList(FilePatterns)
     /\ \E i \in 1..N : FilePatterns.l[i].t = "str" /\ HasComma(FilePatterns.l[i]))
    => (outcome = "ValueError" /\ NoResult)

C9_Witness ==
  /\ variant = "Chaining" /\ outcome = "ValueError"
  /\ FilePatterns = List(<<Str(<<"a">>), Str(<<"b">>), Str(<<"a", ",">>)>>)

\* C10: a wrong field type is rejected with ValueError by every variant:
\* Simple's file_pattern not a string, file_patterns not a list in Chaining,
\* WithinBatchMixing and CrossBatchMixing, also when a string's length equals
\* len(weights).  For CrossBatchMixing it is stated on the configurations with
\* a positive weight, where the selector's choice is defined.
C10_WrongTypeRejected ==
  /\ (variant = "Simple" /\ Called /\ P.file_pattern.t # "str")
       => outcome = "ValueError"
  /\ (variant \in {"Chaining", "WithinBatchMixing"} /\ Called
        /\ FilePatterns.t # "list")
       => outcome = "ValueError"
  /\ (IsCB /\ SelectionDefined /\ Called /\ FilePatterns.t = "str")
       => outcome = "ValueError"

=============================================================================
